---- MODULE Spec2Model ----
(***************************************************************************)
(* Model of the bimap of niksn418/bimap: an intrusive, unbalanced binary   *)
(* search tree (intrusive_set.h / intrusive_set.cpp) and the bimap that    *)
(* keeps every Node in two such trees at once (bimap.h).                   *)
(*                                                                         *)
(* Pointers are integers: Null is nullptr, 1, 2, ... are the Nodes in the   *)
(* order operator new returned them, -b is the sentinel of bimap b.        *)
(* Every Node and every bimap has one set_base per side; tree[s][p] are    *)
(* the three links of the side-s set_base of p.                            *)
(***************************************************************************)
EXTENDS Integers, Sequences, FiniteSets

\* ------------------------------------------------------------- bounds
\* Keys of both sides are 0..MaxKey (Left = Right = int).
MaxKey == 2
\* Number of Nodes operator new hands out in one behaviour of SpecOps.
MaxAllocs == 3
\* Number of Nodes operator new hands out in one behaviour of Spec.
MaxShared == 2

\* Number of Nodes, and of keys 0..MaxTree - 1, in one behaviour of SpecTree.
MaxTree == 4

\* Number of Nodes, and of keys 0..MaxSwap - 1, in one behaviour of SpecSwap.
MaxSwap == 3

\* ------------------------------------------------------------- constants
Null == 0
\* int() : the value of a default constructed Left or Right
DefaultKey == 0
\* the unnamed bimap(std::move(other)) of the move assignment
Temporary == 3

Key == 0..MaxKey
\* the addresses of Nodes: more than the operations of a behaviour use, so
\* that in every reachable state a copy and one more call can be looked at
Node == 1..(2 * MaxAllocs + 1)
Bimap == {1, 2}
Side == {"left", "right"}
\* the states of an ordering predicate: std::less and its reverse
Comp == {"less", "greater"}
\* CompareLeft() / CompareRight(): the default constructed predicate
DefaultComp == "less"
Sentinel(b) == 0 - b
Ptr == Node \cup {Sentinel(b) : b \in Bimap \cup {Temporary}}

VARIABLES
  tree,         \* tree[s][p] : set_base of p on side s: [left, right, parent]
  node,         \* node[n]    : the values [left, right] of the allocated Node n
  m_size,       \* m_size[b]  : bimap::m_size of bimap b
  comp,         \* comp[b][s]  : the Comp base of the side-s set of bimap b
  double_free,  \* delete was called on an address that holds no Node
  constructed,  \* the bimap objects whose lifetime has begun and not ended
  allocs        \* how many Nodes operator new has returned so far

vars == <<tree, node, m_size, comp, double_free, constructed, allocs>>

\* ------------------------------------------------------------- set_base
\* set_base::set_base() : set_base(nullptr, nullptr, nullptr)
set_base == [left |-> Null, right |-> Null, parent |-> Null]

\* replace() that forgets the right slot of the parent
replace_left_only(t, this, value) ==
  IF t[this].parent # Null /\ t[t[this].parent].left = this
  THEN [t EXCEPT ![t[this].parent].left = value]
  ELSE t

\* void set_base::replace(set_base* value)
replace(t, this, value) ==
  IF t[this].parent # Null
  THEN IF t[t[this].parent].left = this
       THEN [t EXCEPT ![t[this].parent].left = value]
       ELSE [t EXCEPT ![t[this].parent].right = value]
  ELSE t

\* void set_base::fix_children()
fix_children(t, this) ==
  LET t1 == IF t[this].left # Null
            THEN [t EXCEPT ![t[this].left].parent = this]
            ELSE t
  IN IF t1[this].right # Null
     THEN [t1 EXCEPT ![t1[this].right].parent = this]
     ELSE t1

\* void set_base::assign_children(set_base* new_left, set_base* new_right)
assign_children(t, this, new_left, new_right) ==
  [t EXCEPT ![this].left = new_left, ![this].right = new_right]

\* swap_with_parent() without the fix_children() of this at its end
swap_with_parent_no_fix(t, this) ==
  LET old_left == t[this].left
      old_right == t[this].right
      t1 == IF t[t[this].parent].left = this
            THEN assign_children(t, this, t[this].parent, t[t[this].parent].right)
            ELSE assign_children(t, this, t[t[this].parent].left, t[this].parent)
      t2 == replace(t1, t1[this].parent, this)
      t3 == assign_children(t2, t2[this].parent, old_left, old_right)
      t4 == fix_children(t3, t3[this].parent)
  IN [t4 EXCEPT ![this].parent = t4[t4[this].parent].parent]

\* void set_base::swap_with_parent()
swap_with_parent(t, this) ==
  LET old_left == t[this].left
      old_right == t[this].right
      t1 == IF t[t[this].parent].left = this
            THEN assign_children(t, this, t[this].parent, t[t[this].parent].right)
            ELSE assign_children(t, this, t[t[this].parent].left, t[this].parent)
      t2 == replace(t1, t1[this].parent, this)
      t3 == assign_children(t2, t2[this].parent, old_left, old_right)
      t4 == fix_children(t3, t3[this].parent)
      t5 == [t4 EXCEPT ![this].parent = t4[t4[this].parent].parent]
  IN fix_children(t5, this)

\* swap() that does not fix the parent links of the exchanged children
swap_no_fix(t, this, other) ==
  IF t[this].parent = other
  THEN swap_with_parent(t, this)
  ELSE IF t[other].parent = this
  THEN swap_with_parent(t, other)
  ELSE LET t1 == replace(t, this, other)
           t2 == replace(t1, other, this)
       IN [t2 EXCEPT ![this] = t2[other], ![other] = t2[this]]

\* void set_base::swap(set_base& other)
swap(t, this, other) ==
  IF t[this].parent = other
  THEN swap_with_parent(t, this)
  ELSE IF t[other].parent = this
  THEN swap_with_parent(t, other)
  ELSE LET t1 == replace(t, this, other)
           t2 == replace(t1, other, this)
           t3 == [t2 EXCEPT ![this] = t2[other], ![other] = t2[this]]
           t4 == fix_children(t3, this)
       IN fix_children(t4, other)

\* set_base* set_base::minimum()
RECURSIVE minimum(_, _)
minimum(t, this) ==
  IF t[this].left # Null THEN minimum(t, t[this].left) ELSE this

\* set_base* set_base::maximum()
RECURSIVE maximum(_, _)
maximum(t, this) ==
  IF t[this].right # Null THEN maximum(t, t[this].right) ELSE this

\* unlink() that treats a node with one child as a leaf
RECURSIVE unlink_as_leaf(_, _)
unlink_as_leaf(t, this) ==
  LET t1 == IF t[this].left = Null \/ t[this].right = Null
            THEN replace(t, this, Null)
            ELSE unlink_as_leaf(swap(t, this, minimum(t, t[this].right)), this)
  IN [t1 EXCEPT ![this] = set_base]

\* void set_base::unlink()
RECURSIVE unlink(_, _)
unlink(t, this) ==
  LET t1 == IF t[this].left = Null /\ t[this].right = Null
            THEN replace(t, this, Null)
            ELSE IF t[this].left = Null
            THEN LET a == replace(t, this, t[this].right)
                 IN [a EXCEPT ![a[this].right].parent = a[this].parent]
            ELSE IF t[this].right = Null
            THEN LET a == replace(t, this, t[this].left)
                 IN [a EXCEPT ![a[this].left].parent = a[this].parent]
            ELSE unlink(swap(t, this, minimum(t, t[this].right)), this)
  IN [t1 EXCEPT ![this] = set_base]

\* ------------------------------------------------------------- set<T, Comp, KeyExtract>
\* bool set::compare(key_t const&, key_t const&): Comp::operator() of the
\* predicate c
compare(c, l, r) == IF c = "less" THEN l < r ELSE r < l

\* KeyExtract::get(get_value(element)): left_extract / right_extract
get_key(nd, s, element) == nd[element][s]

\* set_base*& set::root()
root(t, b) == t[Sentinel(b)].left

\* bool set::empty()
set_empty(t, b) == root(t, b) = Null

\* iterator set::end()
end(b) == Sentinel(b)

\* iterator set::begin()
begin(t, b) == IF set_empty(t, b) THEN end(b) ELSE minimum(t, root(t, b))

\* the while loop of iterator_base::operator++
RECURSIVE increment_up(_, _)
increment_up(t, value) ==
  IF t[t[value].parent].right = value
  THEN increment_up(t, t[value].parent)
  ELSE value

\* operator++ that takes the right child and not the minimum below it
increment_no_min(t, value) ==
  IF t[value].right # Null
  THEN t[value].right
  ELSE t[increment_up(t, value)].parent

\* operator++ without the while loop
increment_no_climb(t, value) ==
  IF t[value].right # Null
  THEN minimum(t, t[value].right)
  ELSE t[value].parent

\* iterator_base& iterator_base::operator++()
increment(t, value) ==
  IF t[value].right # Null
  THEN minimum(t, t[value].right)
  ELSE t[increment_up(t, value)].parent

\* the while loop of iterator_base::operator--
RECURSIVE decrement_up(_, _)
decrement_up(t, value) ==
  IF t[value].parent # Null /\ t[t[value].parent].left = value
  THEN decrement_up(t, t[value].parent)
  ELSE value

\* iterator_base& iterator_base::operator--()
decrement(t, value) ==
  IF t[value].left # Null
  THEN maximum(t, t[value].left)
  ELSE LET v == decrement_up(t, value)
       IN IF t[v].parent # Null THEN t[v].parent ELSE v

\* the loop of set::insert without the return on an equal key
RECURSIVE insert_loop_dup(_, _, _, _, _, _, _)
insert_loop_dup(t, nd, c, s, parent, slot, element) ==
  LET cur == t[parent][slot]
      key == get_key(nd, s, element)
  IN IF cur # Null
     THEN IF compare(c, key, get_key(nd, s, cur))
          THEN insert_loop_dup(t, nd, c, s, cur, "left", element)
          ELSE insert_loop_dup(t, nd, c, s, cur, "right", element)
     ELSE [t |-> [t EXCEPT ![parent][slot] = element, ![element].parent = parent],
           it |-> element]

\* the while loop of set::insert; cur == &parent->slot
RECURSIVE insert_loop(_, _, _, _, _, _, _)
insert_loop(t, nd, c, s, parent, slot, element) ==
  LET cur == t[parent][slot]
      key == get_key(nd, s, element)
  IN IF cur # Null
     THEN IF compare(c, key, get_key(nd, s, cur))
          THEN insert_loop(t, nd, c, s, cur, "left", element)
          ELSE IF compare(c, get_key(nd, s, cur), key)
          THEN insert_loop(t, nd, c, s, cur, "right", element)
          ELSE [t |-> t, it |-> cur]
     ELSE [t |-> [t EXCEPT ![parent][slot] = element, ![element].parent = parent],
           it |-> element]

\* iterator set::insert(T& element)
set_insert(t, nd, c, s, b, element) ==
  insert_loop(t, nd, c, s, Sentinel(b), "left", element)

\* the loop of set::lower_bound that does not remember the Node it left to
\* the left
RECURSIVE lower_bound_loop_no_parent(_, _, _, _, _, _, _)
lower_bound_loop_no_parent(t, nd, c, s, cur, parent, key) ==
  IF cur # Null
  THEN IF compare(c, key, get_key(nd, s, cur))
       THEN lower_bound_loop_no_parent(t, nd, c, s, t[cur].left, parent, key)
       ELSE IF compare(c, get_key(nd, s, cur), key)
       THEN lower_bound_loop_no_parent(t, nd, c, s, t[cur].right, parent, key)
       ELSE cur
  ELSE parent

\* the while loop of set::lower_bound
RECURSIVE lower_bound_loop(_, _, _, _, _, _, _)
lower_bound_loop(t, nd, c, s, cur, parent, key) ==
  IF cur # Null
  THEN IF compare(c, key, get_key(nd, s, cur))
       THEN lower_bound_loop(t, nd, c, s, t[cur].left, cur, key)
       ELSE IF compare(c, get_key(nd, s, cur), key)
       THEN lower_bound_loop(t, nd, c, s, t[cur].right, parent, key)
       ELSE cur
  ELSE parent

\* const_iterator set::lower_bound(key_t const& key)
lower_bound(t, nd, c, s, b, key) ==
  lower_bound_loop(t, nd, c, s, root(t, b), end(b), key)

\* const_iterator set::find(key_t const& key)
set_find(t, nd, c, s, b, key) ==
  LET it == lower_bound(t, nd, c, s, b, key)
  IN IF it # end(b) /\ compare(c, key, get_key(nd, s, it)) THEN end(b) ELSE it

\* const_iterator set::upper_bound(key_t const& key)
upper_bound(t, nd, c, s, b, key) ==
  LET it == lower_bound(t, nd, c, s, b, key)
  IN IF it # end(b) /\ ~compare(c, key, get_key(nd, s, it))
     THEN increment(t, it)
     ELSE it

\* iterator set::erase(const_iterator pos)
set_erase(t, pos) == [t |-> unlink(t, pos), it |-> increment(t, pos)]

\* the for loop of set::~set
RECURSIVE set_destroy_loop(_, _, _)
set_destroy_loop(t, b, it) ==
  IF it # end(b)
  THEN LET e == set_erase(t, it) IN set_destroy_loop(e.t, b, e.it)
  ELSE t

\* set::~set(), then ~set_base of the sentinel
set_destroy(t, b) == unlink(set_destroy_loop(t, b, begin(t, b)), Sentinel(b))

\* void set::swap(set& other)
set_swap(t, b, other) == swap(t, Sentinel(b), Sentinel(other))

\* ------------------------------------------------------------- bimap
\* The private operations take and give the bimap's memory as a record
\* st == [tree, node, m_size] and return [st, ret].
Other(s) == IF s = "left" THEN "right" ELSE "left"

\* new node_t(left, right) at address u: both set_element bases are set_base()
new_node(st, u, left, right) ==
  [st EXCEPT !.node = [n \in (DOMAIN st.node) \cup {u} |->
                         IF n = u THEN [left |-> left, right |-> right]
                                  ELSE st.node[n]],
             !.tree = [s \in Side |-> [st.tree[s] EXCEPT ![u] = set_base]]]

\* delete u: ~Node runs ~set_base, that is unlink(), on the right and on the
\* left base, then the memory is released
delete_node(st, u) ==
  IF u \in DOMAIN st.node
  THEN [st EXCEPT !.tree = [s \in Side |-> unlink(st.tree[s], u)],
                  !.node = [n \in (DOMAIN st.node) \ {u} |-> st.node[n]]]
  ELSE [st EXCEPT !.double_free = TRUE]

\* left_iterator end_left() / right_iterator end_right()
end_left(b) == end(b)
end_right(b) == end(b)

\* insert_node() that forgets ++m_size
insert_node_no_count(st, b, u) ==
  LET left_it == set_insert(st.tree.left, st.node, st.comp[b].left, "left", b, u)
  IN IF left_it.it # u
     THEN [st |-> delete_node(st, u), ret |-> end_left(b)]
     ELSE LET st1 == [st EXCEPT !.tree.left = left_it.t]
              right_it == set_insert(st1.tree.right, st1.node, st1.comp[b].right, "right", b, u)
          IN IF right_it.it # u
             THEN [st |-> delete_node(st1, u), ret |-> end_left(b)]
             ELSE [st |-> [st1 EXCEPT !.tree.right = right_it.t],
                   ret |-> left_it.it]

\* insert_node() that forgets delete u when the Right key is taken
insert_node_no_rollback(st, b, u) ==
  LET left_it == set_insert(st.tree.left, st.node, st.comp[b].left, "left", b, u)
  IN IF left_it.it # u
     THEN [st |-> delete_node(st, u), ret |-> end_left(b)]
     ELSE LET st1 == [st EXCEPT !.tree.left = left_it.t]
              right_it == set_insert(st1.tree.right, st1.node, st1.comp[b].right, "right", b, u)
          IN IF right_it.it # u
             THEN [st |-> st1, ret |-> end_left(b)]
             ELSE [st |-> [st1 EXCEPT !.tree.right = right_it.t,
                                      !.m_size[b] = @ + 1],
                   ret |-> left_it.it]

\* insert_node() that returns end_left() on a taken key without delete u
insert_node_no_delete(st, b, u) ==
  LET left_it == set_insert(st.tree.left, st.node, st.comp[b].left, "left", b, u)
  IN IF left_it.it # u
     THEN [st |-> st, ret |-> end_left(b)]
     ELSE LET st1 == [st EXCEPT !.tree.left = left_it.t]
              right_it == set_insert(st1.tree.right, st1.node, st1.comp[b].right, "right", b, u)
          IN IF right_it.it # u
             THEN [st |-> [st1 EXCEPT !.tree.left = unlink(st1.tree.left, u)],
                   ret |-> end_left(b)]
             ELSE [st |-> [st1 EXCEPT !.tree.right = right_it.t,
                                      !.m_size[b] = @ + 1],
                   ret |-> left_it.it]

\* left_iterator bimap::insert_node(node_t* u)
insert_node(st, b, u) ==
  LET left_it == set_insert(st.tree.left, st.node, st.comp[b].left, "left", b, u)
  IN IF left_it.it # u
     THEN [st |-> delete_node(st, u), ret |-> end_left(b)]
     ELSE LET st1 == [st EXCEPT !.tree.left = left_it.t]
              right_it == set_insert(st1.tree.right, st1.node, st1.comp[b].right, "right", b, u)
          IN IF right_it.it # u
             THEN [st |-> delete_node(st1, u), ret |-> end_left(b)]
             ELSE [st |-> [st1 EXCEPT !.tree.right = right_it.t,
                                      !.m_size[b] = @ + 1],
                   ret |-> left_it.it]

\* generic_insert() that passes its arguments to the Node in the other order
generic_insert_swapped(st, b, u, left, right) ==
  insert_node(new_node(st, u, right, left), b, u)

\* left_iterator bimap::generic_insert(T&& left, R&& right)
generic_insert(st, b, u, left, right) ==
  insert_node(new_node(st, u, left, right), b, u)

\* erase() that forgets --m_size
erase_no_count(st, s, b, it) ==
  LET result == increment(st.tree[s], it)
  IN [st |-> delete_node(st, it), ret |-> result]

\* Iterator bimap::erase(Iterator it), Iterator on side s
erase(st, s, b, it) ==
  LET result == increment(st.tree[s], it)
  IN [st |-> [delete_node(st, it) EXCEPT !.m_size[b] = @ - 1], ret |-> result]

\* left_iterator find_left(left_t const&) / right_iterator find_right(right_t const&)
find(st, s, b, key) == set_find(st.tree[s], st.node, st.comp[b][s], s, b, key)

\* lower_bound_left(key) / lower_bound_right(key)
bimap_lower_bound(st, s, b, key) ==
  lower_bound(st.tree[s], st.node, st.comp[b][s], s, b, key)

\* upper_bound_left(key) / upper_bound_right(key)
bimap_upper_bound(st, s, b, key) ==
  upper_bound(st.tree[s], st.node, st.comp[b][s], s, b, key)

\* bool erase_left(left_t const&) / bool erase_right(right_t const&)
erase_key(st, s, b, key) ==
  LET it == find(st, s, b, key)
  IN IF it = end(b)
     THEN [st |-> st, ret |-> FALSE]
     ELSE [st |-> erase(st, s, b, it).st, ret |-> TRUE]

\* erase_left(first, last) / erase_right(first, last) with an if for the while
erase_range_once(st, s, b, first, last) ==
  IF first # last
  THEN [st |-> erase(st, s, b, first).st, ret |-> last]
  ELSE [st |-> st, ret |-> last]

\* erase_left(first, last) / erase_right(first, last)
RECURSIVE erase_range(_, _, _, _, _)
erase_range(st, s, b, first, last) ==
  IF first # last
  THEN LET e == erase(st, s, b, first)
       IN erase_range(e.st, s, b, e.ret, last)
  ELSE [st |-> st, ret |-> last]

\* set_base::is_root() is used by flip_iterator and defined nowhere in the
\* sources: the sentinel is the one set_base of a tree that has no parent
is_root(t, ptr) == t[ptr].parent = Null

\* the result of a static_cast to a type the object does not have
Wild == 0 - (Temporary + 1)

\* flip_iterator() without the is_root() branch: every position is cast as
\* the position of a Node
flip_iterator_no_end(t, it) ==
  IF it \in Node THEN it ELSE Wild

\* flip_iterator(left_iterator) / flip_iterator(right_iterator); t is the tree
\* of the side `it` is on. The casts go from one base of an object to the
\* other base of the same object: of the bimap if is_root(), else of the Node.
flip_iterator(t, it) ==
  IF is_root(t, it)
  THEN IF it \in Node THEN Wild ELSE it
  ELSE IF it \in Node THEN it ELSE Wild

\* *it on side s: Extract::get(get_node(it)); any value if `it` is no live Node
deref(st, s, it) ==
  IF it \in DOMAIN st.node THEN {st.node[it][s]} ELSE Key

\* at_left() / at_right() without the comparison with end
at_unchecked(st, s, b, key) ==
  LET it == find(st, s, b, key)
  IN [st |-> st, out_of_range |-> FALSE,
      ret |-> deref(st, Other(s), flip_iterator(st.tree[s], it))]

\* at_left(key) (s = "left") / at_right(key) (s = "right"); out_of_range tells
\* that std::out_of_range was thrown, ret is the set of values the returned
\* reference can read
at(st, s, b, key) ==
  LET it == find(st, s, b, key)
  IN IF it = end(b)
     THEN [st |-> st, out_of_range |-> TRUE, ret |-> {}]
     ELSE [st |-> st, out_of_range |-> FALSE,
           ret |-> deref(st, Other(s), flip_iterator(st.tree[s], it))]

\* at_*_or_default() that does not erase the pair holding the default value
at_or_default_no_evict(st, s, b, u, key) ==
  LET it == find(st, s, b, key)
  IN IF it = end(b)
     THEN LET st1 == IF s = "left" THEN new_node(st, u, key, DefaultKey)
                                   ELSE new_node(st, u, DefaultKey, key)
              st3 == insert_node(st1, b, u).st
          IN [st |-> st3, ret |-> deref(st3, Other(s), u)]
     ELSE [st |-> st, ret |-> deref(st, Other(s), flip_iterator(st.tree[s], it))]

\* at_*_or_default() that returns *it and not *it.flip() for a present key
at_or_default_no_flip(st, s, b, u, key) ==
  LET it == find(st, s, b, key)
  IN IF it = end(b)
     THEN LET st1 == IF s = "left" THEN new_node(st, u, key, DefaultKey)
                                   ELSE new_node(st, u, DefaultKey, key)
              st2 == erase_key(st1, Other(s), b, st1.node[u][Other(s)]).st
              st3 == insert_node(st2, b, u).st
          IN [st |-> st3, ret |-> deref(st3, Other(s), u)]
     ELSE [st |-> st, ret |-> deref(st, s, it)]

\* at_left_or_default(key) (s = "left") / at_right_or_default(key) (s = "right");
\* ret is the set of values the returned reference can read
at_or_default(st, s, b, u, key) ==
  LET it == find(st, s, b, key)
  IN IF it = end(b)
     THEN LET st1 == IF s = "left" THEN new_node(st, u, key, DefaultKey)
                                   ELSE new_node(st, u, DefaultKey, key)
              st2 == erase_key(st1, Other(s), b, st1.node[u][Other(s)]).st
              st3 == insert_node(st2, b, u).st
          IN [st |-> st3, ret |-> deref(st3, Other(s), u)]
     ELSE [st |-> st, ret |-> deref(st, Other(s), flip_iterator(st.tree[s], it))]

\* void bimap::swap(bimap& other)
bimap_swap(st, b, other) ==
  [st EXCEPT !.m_size = [st.m_size EXCEPT ![b] = st.m_size[other],
                                          ![other] = st.m_size[b]],
             !.tree = [s \in Side |-> set_swap(st.tree[s], b, other)]]

\* bimap(bimap&&) = default, constructing b from other: each set's sentinel is
\* set_base(set_base&&), that is set_base() and swap(other); m_size is copied
move_construct(st, b, other) ==
  [st EXCEPT !.m_size[b] = st.m_size[other],
             !.comp[b] = st.comp[other],
             !.tree = [s \in Side |->
                         swap([st.tree[s] EXCEPT ![Sentinel(b)] = set_base],
                              Sentinel(b), Sentinel(other))]]

\* bimap::bimap(compare_left, compare_right): two empty sets, m_size = 0
construct(st, b, compare_left, compare_right) ==
  [st EXCEPT !.m_size[b] = 0,
             !.comp[b] = [left |-> compare_left, right |-> compare_right],
             !.tree = [s \in Side |-> [st.tree[s] EXCEPT ![Sentinel(b)] = set_base]]]

\* bimap::bimap(): both predicates default constructed
default_construct(st, b) == construct(st, b, DefaultComp, DefaultComp)

\* bimap::~bimap(): erase_left(begin_left(), end_left()), then ~set of the right
\* and of the left set; the storage of m_size is gone (0 stands for that)
destroy(st, b) ==
  LET st1 == erase_range(st, "left", b, begin(st.tree.left, b), end_left(b)).st
  IN [st1 EXCEPT !.m_size[b] = 0,
                 !.tree = [s \in Side |-> set_destroy(st1.tree[s], b)]]

\* bimap& operator=(bimap&& other): bimap(std::move(other)).swap(*this)
move_assign(st, b, other) ==
  IF b # other
  THEN destroy(bimap_swap(move_construct(st, Temporary, other), Temporary, b),
               Temporary)
  ELSE st

\* the for loop of bimap(bimap const& other): insert(*it, *it.flip()), the
\* Node of each insert at the next address from u on
RECURSIVE copy_loop(_, _, _, _, _)
copy_loop(st, b, other, it, u) ==
  IF it # end_left(other)
  THEN copy_loop(generic_insert(st, b, u, st.node[it].left,
                                st.node[flip_iterator(st.tree.left, it)].right).st,
                 b, other, increment(st.tree.left, it), u + 1)
  ELSE st

\* bimap(bimap const& other) : bimap(), constructing b
copy_construct(st, b, other, u) ==
  copy_loop(default_construct(st, b), b, other, begin(st.tree.left, other), u)

\* bimap& operator=(bimap const& other): bimap(other).swap(*this)
copy_assign(st, b, other, u) ==
  IF b # other
  THEN destroy(bimap_swap(copy_construct(st, Temporary, other, u), Temporary, b),
               Temporary)
  ELSE st

\* bool set::equal: the two keys are order-equivalent under the predicate c
equal(c, l, r) == ~compare(c, l, r) /\ ~compare(c, r, l)

\* std::size_t bimap::size()
size(st, b) == st.m_size[b]

\* bool bimap::empty()
empty(st, b) == size(st, b) = 0

\* the for loop of operator==: its condition is a comma expression, of which
\* only it2 != b.end_left() counts; get_node(it1) of a.end_left() reads a Node
\* where none is, and then any result is possible. ret is the set of results,
\* past_end tells that a.end_left() was dereferenced
RECURSIVE operator_eq_loop(_, _, _, _, _)
operator_eq_loop(st, a, b, it1, it2) ==
  IF it2 # end_left(b)
  THEN IF it1 \notin DOMAIN st.node
       THEN [ret |-> BOOLEAN, past_end |-> TRUE]
       ELSE IF \/ ~equal(st.comp[a].left, st.node[it1].left, st.node[it2].left)
               \/ ~equal(st.comp[a].right, st.node[it1].right, st.node[it2].right)
       THEN [ret |-> {FALSE}, past_end |-> FALSE]
       ELSE operator_eq_loop(st, a, b, increment(st.tree.left, it1),
                             increment(st.tree.left, it2))
  ELSE [ret |-> {TRUE}, past_end |-> FALSE]

\* friend bool operator==(bimap const& a, bimap const& b)
operator_eq(st, a, b) ==
  IF size(st, a) # size(st, b)
  THEN [ret |-> {FALSE}, past_end |-> FALSE]
  ELSE operator_eq_loop(st, a, b, begin(st.tree.left, a), begin(st.tree.left, b))

\* friend bool operator!=(bimap const& a, bimap const& b)
operator_ne(st, a, b) == {~r : r \in operator_eq(st, a, b).ret}

\* ------------------------------------------------------------- the program
St ==
  [tree |-> tree, node |-> node, m_size |-> m_size, comp |-> comp,
   double_free |-> double_free]

Becomes(st) ==
  /\ tree' = st.tree /\ node' = st.node /\ m_size' = st.m_size
  /\ comp' = st.comp /\ double_free' = st.double_free

\* the Nodes below and including p
RECURSIVE subtree(_, _)
subtree(t, p) ==
  IF p = Null THEN {} ELSE {p} \cup subtree(t, t[p].left) \cup subtree(t, t[p].right)

\* the Nodes linked into the side-s set of bimap b
members(t, b) == subtree(t, root(t, b))

\* the positions from `it` up to and including end(b), by operator++
RECURSIVE range(_, _, _)
range(t, b, it) ==
  IF it = end(b) THEN <<it>> ELSE <<it>> \o range(t, b, increment(t, it))

\* the positions of the side-s set of bimap b, from begin to end
positions(t, b) == range(t, b, begin(t, b))

Init ==
  /\ tree = [s \in Side |-> [p \in Ptr |-> set_base]]
  /\ node = <<>>
  /\ m_size = [b \in Bimap \cup {Temporary} |-> 0]
  /\ comp = [b \in Bimap \cup {Temporary} |-> [s \in Side |-> DefaultComp]]
  /\ double_free = FALSE
  /\ constructed = {1}
  /\ allocs = 0

\* b.insert(left, right), while operator new has a Node left to give
Insert(b, left, right, limit) ==
  /\ b \in constructed
  /\ allocs < limit
  /\ Becomes(generic_insert(St, b, allocs + 1, left, right).st)
  /\ allocs' = allocs + 1
  /\ UNCHANGED constructed

\* b.erase_left(it) / b.erase_right(it), it a position of a pair of b
EraseIt(b, s, it) ==
  /\ b \in constructed
  /\ it \in members(tree[s], b)
  /\ Becomes(erase(St, s, b, it).st)
  /\ UNCHANGED <<constructed, allocs>>

\* b.erase_left(key) / b.erase_right(key)
EraseKey(b, s, key) ==
  /\ b \in constructed
  /\ Becomes(erase_key(St, s, b, key).st)
  /\ UNCHANGED <<constructed, allocs>>

\* b.erase_left(first, last) / b.erase_right(first, last): [first, last) is
\* valid, first the i-th and last the j-th position of b, i <= j
EraseRange(b, s, i, j) ==
  /\ b \in constructed
  /\ i <= j /\ j <= Len(positions(tree[s], b))
  /\ Becomes(erase_range(St, s, b, positions(tree[s], b)[i],
                         positions(tree[s], b)[j]).st)
  /\ UNCHANGED <<constructed, allocs>>

\* b.at_left_or_default(key) / b.at_right_or_default(key)
AtOrDefault(b, s, key, limit) ==
  /\ b \in constructed
  /\ LET absent == find(St, s, b, key) = end(b)
     IN /\ absent => allocs < limit
        /\ allocs' = IF absent THEN allocs + 1 ELSE allocs
        /\ Becomes(at_or_default(St, s, b, allocs + 1, key).st)
  /\ UNCHANGED constructed

\* b.at_left(key) / b.at_right(key)
At(b, s, key) ==
  /\ b \in constructed
  /\ Becomes(at(St, s, b, key).st)
  /\ UNCHANGED <<constructed, allocs>>

\* b.find_left(key) / b.find_right(key)
Find(b, s, key) ==
  /\ b \in constructed
  /\ find(St, s, b, key) \in Ptr
  /\ UNCHANGED vars

\* b.lower_bound_left(key) / b.lower_bound_right(key)
LowerBound(b, s, key) ==
  /\ b \in constructed
  /\ bimap_lower_bound(St, s, b, key) \in Ptr
  /\ UNCHANGED vars

\* b.upper_bound_left(key) / b.upper_bound_right(key)
UpperBound(b, s, key) ==
  /\ b \in constructed
  /\ bimap_upper_bound(St, s, b, key) \in Ptr
  /\ UNCHANGED vars

\* it.flip(), it a position of b on side s, end included
Flip(b, s, it) ==
  /\ b \in constructed
  /\ it \in members(tree[s], b) \cup {end(b)}
  /\ flip_iterator(tree[s], it) \in Ptr
  /\ UNCHANGED vars

\* b.swap(other)
Swap(b, other) ==
  /\ b \in constructed /\ other \in constructed
  /\ Becomes(bimap_swap(St, b, other))
  /\ UNCHANGED <<constructed, allocs>>

\* bimap b(std::move(other))
MoveConstruct(b, other) ==
  /\ b \notin constructed /\ other \in constructed
  /\ Becomes(move_construct(St, b, other))
  /\ constructed' = constructed \cup {b}
  /\ UNCHANGED allocs

\* b = std::move(other)
MoveAssign(b, other) ==
  /\ b \in constructed /\ other \in constructed
  /\ Becomes(move_assign(St, b, other))
  /\ UNCHANGED <<constructed, allocs>>

\* bimap b(other), while operator new has a Node left for every pair of other
CopyConstruct(b, other, limit) ==
  /\ b \notin constructed /\ other \in constructed
  /\ allocs + Cardinality(members(tree.left, other)) <= limit
  /\ Becomes(copy_construct(St, b, other, allocs + 1))
  /\ allocs' = allocs + Cardinality(members(tree.left, other))
  /\ constructed' = constructed \cup {b}

\* b = other
CopyAssign(b, other, limit) ==
  /\ b \in constructed /\ other \in constructed
  /\ b # other => allocs + Cardinality(members(tree.left, other)) <= limit
  /\ Becomes(copy_assign(St, b, other, allocs + 1))
  /\ allocs' = IF b # other
               THEN allocs + Cardinality(members(tree.left, other))
               ELSE allocs
  /\ UNCHANGED constructed

\* a == b and a != b
Equals(a, b) ==
  /\ a \in constructed /\ b \in constructed
  /\ operator_ne(St, a, b) \subseteq BOOLEAN
  /\ UNCHANGED vars

\* bimap b;
DefaultConstruct(b) ==
  /\ b \notin constructed
  /\ Becomes(default_construct(St, b))
  /\ constructed' = constructed \cup {b}
  /\ UNCHANGED allocs

\* the lifetime of b ends
Destroy(b) ==
  /\ b \in constructed
  /\ Becomes(destroy(St, b))
  /\ constructed' = constructed \ {b}
  /\ UNCHANGED allocs

\* insert, erase and at_*_or_default
NextOps(limit) ==
  \E b \in Bimap, s \in Side :
    \/ \E left \in Key, right \in Key : Insert(b, left, right, limit)
    \/ \E it \in Node : EraseIt(b, s, it)
    \/ \E key \in Key : EraseKey(b, s, key)
    \/ \E i \in 1..(MaxAllocs + 1), j \in 1..(MaxAllocs + 1) : EraseRange(b, s, i, j)
    \/ \E key \in Key : AtOrDefault(b, s, key, limit)
    \/ \E key \in Key : At(b, s, key)
    \/ \E key \in Key : Find(b, s, key)
    \/ \E key \in Key : LowerBound(b, s, key)
    \/ \E key \in Key : UpperBound(b, s, key)
    \/ \E it \in Ptr : Flip(b, s, it)

\* and the operations on whole bimaps
NextWhole(limit) ==
  \E b \in Bimap, other \in Bimap :
    \/ Swap(b, other)
    \/ MoveConstruct(b, other)
    \/ MoveAssign(b, other)
    \/ CopyConstruct(b, other, limit)
    \/ CopyAssign(b, other, limit)
    \/ Equals(b, other)
    \/ DefaultConstruct(b)
    \/ Destroy(b)

Next == NextOps(MaxShared) \/ NextWhole(MaxShared)

\* every operation, on up to two bimaps that share MaxShared Nodes
Spec == Init /\ [][Next]_vars

\* insert, erase and at_*_or_default on one bimap
SpecOps == Init /\ [][NextOps(MaxAllocs)]_vars

\* bimap b(compare_left, compare_right): the first bimap is constructed with
\* any two predicates
InitComp ==
  /\ tree = [s \in Side |-> [p \in Ptr |-> set_base]]
  /\ node = <<>>
  /\ m_size = [b \in Bimap \cup {Temporary} |-> 0]
  /\ \E compare_left \in Comp, compare_right \in Comp :
       comp = [b \in Bimap \cup {Temporary} |->
                 IF b = 1 THEN [left |-> compare_left, right |-> compare_right]
                          ELSE [s \in Side |-> DefaultComp]]
  /\ double_free = FALSE
  /\ constructed = {1}
  /\ allocs = 0

\* insert, erase and at_*_or_default on one bimap with any two predicates
SpecComp == InitComp /\ [][NextOps(MaxAllocs)]_vars

\* insert(key, key) and erase by position on one bimap: both trees take every
\* shape of up to MaxTree Nodes
NextTree ==
  \E b \in Bimap, s \in Side :
    \/ \E key \in 0..(MaxTree - 1) : Insert(b, key, key, MaxTree)
    \/ \E it \in Node : EraseIt(b, s, it)

SpecTree == Init /\ [][NextTree]_vars

\* x.swap(y) on the side-s set_base of two Nodes of one tree of bimap b
NodeSwap(b, s, x, y) ==
  /\ b \in constructed
  /\ x \in members(tree[s], b) /\ y \in members(tree[s], b) /\ x # y
  /\ tree' = [tree EXCEPT ![s] = swap(tree[s], x, y)]
  /\ UNCHANGED <<node, m_size, comp, double_free, constructed, allocs>>

\* insert(key, key) on one bimap, and set_base::swap on any two Nodes of one
\* of its trees
NextSwap ==
  \E b \in Bimap, s \in Side :
    \/ \E key \in 0..(MaxSwap - 1) : Insert(b, key, key, MaxSwap)
    \/ \E x \in Node, y \in Node : NodeSwap(b, s, x, y)

SpecSwap == Init /\ [][NextSwap]_vars

\* ------------------------------------------------------------- observations
\* the side-s keys of the Nodes linked into the side-s set of bimap b
keys(st, s, b) == {st.node[n][s] : n \in members(st.tree[s], b)}

\* the (left, right) pairs of the Nodes linked into the side-s set of bimap b
pairs(st, s, b) ==
  {<<st.node[n].left, st.node[n].right>> : n \in members(st.tree[s], b)}

\* the address operator new returns next
fresh == allocs + 1

\* the (left, right) pairs of bimap b in the order of the side-s traversal,
\* from begin to end
sequence(st, s, b) ==
  LET pos == positions(st.tree[s], b)
  IN [i \in 1..(Len(pos) - 1) |-> <<st.node[pos[i]].left, st.node[pos[i]].right>>]

\* the bimaps no object lives in: the place of a copy
free == Bimap \ constructed

\* ------------------------------------------------------------- C1
\* C1: an insert(l, r) where l is already a Left key or r is already a Right
\* key returns end_left() and leaves m_size, the Nodes and every link of both
\* trees as they were.
C1_FailedInsertIsNoOp ==
  \A b \in constructed, l \in Key, r \in Key :
    (l \in keys(St, "left", b) \/ r \in keys(St, "right", b))
    => LET res == generic_insert(St, b, fresh, l, r)
       IN res.ret = end_left(b) /\ res.st = St

\* a failed insert that had linked the new Node into the Left tree and below
\* a Node of it, and took it out again
C1_Witness ==
  \E b \in constructed, l \in Key, r \in Key :
    /\ l \notin keys(St, "left", b) /\ r \in keys(St, "right", b)
    /\ LET st1 == new_node(St, fresh, l, r)
           left_it == set_insert(st1.tree.left, st1.node, comp[b].left, "left", b, fresh)
           res == generic_insert(St, b, fresh, l, r)
       IN /\ left_it.it = fresh
          /\ left_it.t[fresh].parent \in Node
          /\ res.ret = end_left(b) /\ res.st = St

\* ------------------------------------------------------------- C2
\* C2: an insert(l, r) with l no Left key and r no Right key returns a
\* position p that is not end_left(), with *p = l, find_left(l) = p,
\* find_right(r) = p.flip(), find_right(r).flip() = p; m_size grows by one
\* and every pair stored before is still stored.
C2_SuccessfulInsert ==
  \A b \in constructed, l \in Key, r \in Key :
    (l \notin keys(St, "left", b) /\ r \notin keys(St, "right", b))
    => LET res == generic_insert(St, b, fresh, l, r)
           p == res.ret
           st2 == res.st
       IN /\ p # end_left(b)
          /\ deref(st2, "left", p) = {l}
          /\ find(st2, "left", b, l) = p
          /\ find(st2, "right", b, r) = flip_iterator(st2.tree.left, p)
          /\ flip_iterator(st2.tree.right, find(st2, "right", b, r)) = p
          /\ size(st2, b) = size(St, b) + 1
          /\ \A s \in Side : pairs(St, s, b) \subseteq pairs(st2, s, b)
          /\ \A s \in Side : <<l, r>> \in pairs(st2, s, b)

\* an insert into a bimap of two pairs that puts the new Node between them
C2_Witness ==
  \E b \in constructed, l \in Key, r \in Key :
    /\ l \notin keys(St, "left", b) /\ r \notin keys(St, "right", b)
    /\ Cardinality(members(tree.left, b)) = 2
    /\ LET res == generic_insert(St, b, fresh, l, r)
       IN /\ res.ret = fresh
          /\ res.st.tree.left[fresh].parent # root(tree.left, b)
          /\ size(res.st, b) = 3

\* ------------------------------------------------------------- C3
\* C3: between public operations, the Nodes reachable from the Left sentinel
\* of a bimap are the Nodes reachable from its Right sentinel.
C3_DualMembership ==
  \A b \in constructed : members(tree.left, b) = members(tree.right, b)

\* the second bimap holds a pair and the first is alive, after a Node was
\* released by a failed insert or an erase
C3_Witness ==
  /\ constructed = Bimap
  /\ members(tree.left, 2) # {}
  /\ allocs > Cardinality(DOMAIN node)

\* ------------------------------------------------------------- C4
\* C4: no two stored pairs have order-equivalent Left keys, and no two have
\* order-equivalent Right keys.
C4_Bijection ==
  \A b \in constructed, s \in Side :
    \A n \in members(tree[s], b), m \in members(tree[s], b) :
      n # m => /\ ~equal(comp[b].left, node[n].left, node[m].left)
               /\ ~equal(comp[b].right, node[n].right, node[m].right)

\* three pairs that are not the identity mapping
C4_Witness ==
  \E b \in constructed :
    /\ Cardinality(members(tree.left, b)) = 3
    /\ \E n \in members(tree.left, b) : node[n].left # node[n].right

\* ------------------------------------------------------------- C5
\* C5: size() is the number of Nodes in the Left tree and in the Right tree,
\* and empty() is true exactly when both trees are empty.
C5_SizeInvariant ==
  \A b \in constructed :
    /\ size(St, b) = Cardinality(members(tree.left, b))
    /\ size(St, b) = Cardinality(members(tree.right, b))
    /\ empty(St, b) <=> (set_empty(tree.left, b) /\ set_empty(tree.right, b))

\* a bimap of two pairs after a third Node was allocated and released
C5_Witness ==
  \E b \in constructed :
    /\ size(St, b) = 2
    /\ allocs = 3
    /\ Cardinality(DOMAIN node) = 2

\* ------------------------------------------------------------- C6
\* size() is the number of Nodes in each tree of bimap b, in the memory st
SizeMatches(st, b) ==
  /\ size(st, b) = Cardinality(members(st.tree.left, b))
  /\ size(st, b) = Cardinality(members(st.tree.right, b))

\* the memory after the step
StNext ==
  [tree |-> tree', node |-> node', m_size |-> m_size', comp |-> comp',
   double_free |-> double_free']

\* C6: after bimap b(std::move(other)) and after b = std::move(other), size()
\* is the number of Nodes in the Left tree and in the Right tree, of b and of
\* the moved-from other, and b holds the pairs other held.
C6_MoveKeepsSize ==
  [][\A b \in Bimap, other \in Bimap :
       (MoveConstruct(b, other) \/ MoveAssign(b, other))
       => /\ SizeMatches(StNext, b) /\ SizeMatches(StNext, other)
          /\ \A s \in Side : pairs(StNext, s, b) = pairs(St, s, other)]_vars

\* ------------------------------------------------------------- C7
\* the positions operator++ visits from `it`, end(b) not included, fuel at most
RECURSIVE visited(_, _, _, _)
visited(t, b, it, fuel) ==
  IF it = end(b) \/ fuel = 0
  THEN <<>>
  ELSE <<it>> \o visited(t, b, increment(t, it), fuel - 1)

\* C7: incrementing from begin reaches end after exactly size() steps, visits
\* every stored pair once, in strictly increasing order of the side's keys;
\* begin = end when the bimap is empty. On the Left and on the Right side.
C7_OrderedTraversal ==
  \A b \in constructed, s \in Side :
    LET seq == visited(tree[s], b, begin(tree[s], b), size(St, b) + 1)
    IN /\ Len(seq) = size(St, b)
       /\ {seq[i] : i \in 1..Len(seq)} = members(tree[s], b)
       /\ \A i \in 1..Len(seq), j \in 1..Len(seq) : i # j => seq[i] # seq[j]
       /\ \A i \in 1..(Len(seq) - 1) :
            compare(comp[b][s], get_key(node, s, seq[i]), get_key(node, s, seq[i + 1]))
       /\ empty(St, b) => begin(tree[s], b) = end(b)

\* two pairs whose Right order is not their Left order, after a third Node
\* was released
C7_Witness ==
  \E b \in constructed :
    /\ size(St, b) = 2
    /\ allocs = 3
    /\ LET l == visited(tree.left, b, begin(tree.left, b), 3)
           r == visited(tree.right, b, begin(tree.right, b), 3)
       IN Len(l) = 2 /\ Len(r) = 2 /\ l # r

\* ------------------------------------------------------------- C8
\* C8: erase_left(it) / erase_right(it) of the position of pair (l, r): then
\* find_left(l) and find_right(r) are end, m_size is one less, and every
\* other pair is still found on both sides, with the same partner.
C8_ErasePosition ==
  \A b \in constructed, s \in Side :
    \A it \in members(tree[s], b) :
      LET st2 == erase(St, s, b, it).st
      IN /\ find(st2, "left", b, node[it].left) = end_left(b)
         /\ find(st2, "right", b, node[it].right) = end_right(b)
         /\ size(st2, b) = size(St, b) - 1
         /\ \A n \in (members(tree.left, b) \cup members(tree.right, b)) \ {it} :
              /\ find(st2, "left", b, node[n].left) = n
              /\ find(st2, "right", b, node[n].right) = n
              /\ deref(st2, "left", n) = {node[n].left}
              /\ deref(st2, "right", n) = {node[n].right}

\* the erased Node has two children in the tree of the side it is erased on
C8_Witness ==
  \E b \in constructed, s \in Side :
    \E it \in members(tree[s], b) :
      /\ tree[s][it].left # Null /\ tree[s][it].right # Null
      /\ size(erase(St, s, b, it).st, b) = 2

\* ------------------------------------------------------------- C9
\* the positions of the side-s keys greater than the key of `it`
greater(st, s, b, it) ==
  {n \in members(st.tree[s], b) :
     compare(st.comp[b][s], st.node[it][s], st.node[n][s])}

\* C9: erase_left(it) / erase_right(it) returns the position of the smallest
\* key of that side greater than *it, or end if there is none; the Node at the
\* returned position is still allocated and in both trees after the call.
C9_EraseReturnsSuccessor ==
  \A b \in constructed, s \in Side :
    \A it \in members(tree[s], b) :
      LET res == erase(St, s, b, it)
          after == greater(St, s, b, it)
      IN /\ IF after = {}
            THEN res.ret = end(b)
            ELSE /\ res.ret \in after
                 /\ \A n \in after : ~compare(comp[b][s], node[n][s], node[res.ret][s])
         /\ res.ret # end(b) =>
              /\ res.ret \in DOMAIN res.st.node
              /\ res.ret \in members(res.st.tree.left, b)
              /\ res.ret \in members(res.st.tree.right, b)

\* the erased Node has two children and the returned position is the Node
\* unlink swapped it with
C9_Witness ==
  \E b \in constructed, s \in Side :
    \E it \in members(tree[s], b) :
      /\ tree[s][it].left # Null /\ tree[s][it].right # Null
      /\ erase(St, s, b, it).ret = minimum(tree[s], tree[s][it].right)
      /\ erase(St, s, b, it).st.tree[s][erase(St, s, b, it).ret].left = tree[s][it].left

\* ------------------------------------------------------------- C10
\* the Nodes of bimap b whose key on side s is the default value
holds_default(st, s, b) ==
  {n \in members(st.tree[s], b) : equal(st.comp[b][s], st.node[n][s], DefaultKey)}

\* C10: at_left_or_default(k) / at_right_or_default(k), k absent on the
\* queried side s: afterwards the pair of k and the default value is stored and
\* the default value is returned; if a pair held the default value on the
\* other side it is gone (its side-s key is not found any more) and m_size is
\* unchanged, otherwise m_size is one more; all other pairs are untouched.
C10_DefaultOnAbsentKey ==
  \A b \in constructed, s \in Side, k \in Key :
    k \notin keys(St, s, b)
    => LET o == Other(s)
           res == at_or_default(St, s, b, fresh, k)
           st2 == res.st
           evicted == holds_default(St, o, b)
       IN /\ res.ret = {DefaultKey}
          /\ find(st2, s, b, k) = fresh
          /\ find(st2, o, b, DefaultKey) = fresh
          /\ st2.node[fresh][s] = k /\ st2.node[fresh][o] = DefaultKey
          /\ IF evicted # {}
             THEN /\ size(st2, b) = size(St, b)
                  /\ \A n \in evicted :
                       /\ find(st2, s, b, node[n][s]) = end(b)
                       /\ n \notin DOMAIN st2.node
                       /\ \A x \in Side : n \notin members(st2.tree[x], b)
             ELSE size(st2, b) = size(St, b) + 1
          /\ \A n \in (members(tree.left, b) \cup members(tree.right, b)) \ evicted :
               /\ find(st2, "left", b, node[n].left) = n
               /\ find(st2, "right", b, node[n].right) = n
               /\ st2.node[n] = node[n]

\* the default value is the key of a pair on the other side, the pair is
\* evicted and another pair stays
C10_Witness ==
  \E b \in constructed, s \in Side, k \in Key :
    /\ k \notin keys(St, s, b)
    /\ holds_default(St, Other(s), b) # {}
    /\ size(St, b) = 2
    /\ size(at_or_default(St, s, b, fresh, k).st, b) = 2

\* ------------------------------------------------------------- C11
\* C11: at_left_or_default(k) / at_right_or_default(k) with k present on the
\* queried side returns the value paired with k and changes neither m_size
\* nor a Node nor a link; with k absent, a second call with the same k returns
\* the same default value as the first and changes nothing the first left.
C11_AtOrDefaultIdempotent ==
  \A b \in constructed, s \in Side, k \in Key :
    LET first == at_or_default(St, s, b, fresh, k)
    IN IF k \in keys(St, s, b)
       THEN /\ first.st = St
            /\ first.ret = {node[n][Other(s)] :
                               n \in {m \in members(tree[s], b) : node[m][s] = k}}
       ELSE LET second == at_or_default(first.st, s, b, fresh + 1, k)
            IN /\ first.ret = {DefaultKey}
               /\ second.ret = first.ret
               /\ second.st = first.st

\* a present key whose pair is below the root of its tree and has a partner
\* of another value, and an absent key whose first call evicts a pair
C11_Witness ==
  \E b \in constructed, s \in Side :
    /\ \E n \in members(tree[s], b) :
         /\ tree[s][n].parent \in Node
         /\ node[n][s] # node[n][Other(s)]
         /\ at_or_default(St, s, b, fresh, node[n][s]).ret = {node[n][Other(s)]}
    /\ \E k \in Key :
         /\ k \notin keys(St, s, b)
         /\ holds_default(St, Other(s), b) # {}
         /\ at_or_default(at_or_default(St, s, b, fresh, k).st, s, b, fresh + 1, k).ret
              = {DefaultKey}

\* ------------------------------------------------------------- C12
\* C12: at_left(k) / at_right(k) with k absent on the queried side throws
\* std::out_of_range, with k present returns the value paired with k; in both
\* cases m_size, the Nodes and the links are as before.
C12_AtThrowsOnAbsentKey ==
  \A b \in constructed, s \in Side, k \in Key :
    LET res == at(St, s, b, k)
    IN /\ res.st = St
       /\ IF k \in keys(St, s, b)
          THEN /\ ~res.out_of_range
               /\ res.ret = {node[n][Other(s)] :
                                n \in {m \in members(tree[s], b) : node[m][s] = k}}
          ELSE /\ res.out_of_range
               /\ res.ret = {}

\* an absent key between two stored keys, where lower_bound stops at a Node,
\* and a present key with a partner of another value
C12_Witness ==
  \E b \in constructed, s \in Side, k \in Key :
    /\ k \notin keys(St, s, b)
    /\ lower_bound(tree[s], node, comp[b][s], s, b, k) \in Node
    /\ at(St, s, b, k).out_of_range
    /\ \E n \in members(tree[s], b) :
         /\ node[n][s] # node[n][Other(s)]
         /\ at(St, s, b, node[n][s]).ret = {node[n][Other(s)]}

\* ------------------------------------------------------------- C13
\* C13: for every position p of a stored pair, on the Left or on the Right
\* side, p.flip() is the position of the same Node on the other side,
\* *p.flip() is the value stored with *p, and p.flip().flip() = p; flip() of
\* the end position of a bimap is the end position of the other side of the
\* same bimap.
C13_Flip ==
  \A b \in constructed, s \in Side :
    /\ \A p \in members(tree[s], b) :
         LET q == flip_iterator(tree[s], p)
         IN /\ q = p
            /\ q \in members(tree[Other(s)], b)
            /\ deref(St, Other(s), q) = {node[p][Other(s)]}
            /\ flip_iterator(tree[Other(s)], q) = p
    /\ flip_iterator(tree[s], end(b)) = end(b)
    /\ flip_iterator(tree.left, end_left(b)) = end_right(b)
    /\ flip_iterator(tree.right, end_right(b)) = end_left(b)

\* both bimaps are alive and hold a pair, and the pair of the second has two
\* different values
C13_Witness ==
  /\ constructed = Bimap
  /\ members(tree.left, 1) # {}
  /\ \E p \in members(tree.left, 2) :
       /\ node[p].left # node[p].right
       /\ deref(St, "right", flip_iterator(tree.left, p)) = {node[p].right}

\* ------------------------------------------------------------- C14
\* C14: erasing a stored pair (l, r), by its Left or by its Right position,
\* and then insert(l, r) succeeds and gives a bimap with the size, the
\* Left-ascending and the Right-ascending sequence of pairs it had before,
\* and operator== with a copy taken before the erase is true.
C14_EraseInsertRoundTrip ==
  \A b \in constructed, c \in free, s \in Side :
    \A n \in members(tree[s], b) :
      LET copied == copy_construct(St, c, b, fresh)
          erased == erase(copied, s, b, n).st
          res == generic_insert(erased, b, fresh + size(St, b),
                                node[n].left, node[n].right)
      IN /\ res.ret # end_left(b)
         /\ size(res.st, b) = size(St, b)
         /\ \A x \in Side : sequence(res.st, x, b) = sequence(St, x, b)
         /\ operator_eq(res.st, b, c) = [ret |-> {TRUE}, past_end |-> FALSE]
         /\ operator_eq(res.st, c, b) = [ret |-> {TRUE}, past_end |-> FALSE]
         /\ operator_ne(res.st, b, c) = {FALSE}

\* the erased Node is the root of the Left tree and has two children; the Node
\* inserted in its place is a leaf, and the pair has two different values
C14_Witness ==
  \E b \in constructed, c \in free :
    \E n \in members(tree.left, b) :
      LET copied == copy_construct(St, c, b, fresh)
          erased == erase(copied, "left", b, n).st
          res == generic_insert(erased, b, fresh + size(St, b),
                                node[n].left, node[n].right)
      IN /\ root(tree.left, b) = n
         /\ tree.left[n].left # Null /\ tree.left[n].right # Null
         /\ node[n].left # node[n].right
         /\ res.st.tree.left[res.ret] = [set_base EXCEPT !.parent = res.st.tree.left[res.ret].parent]
         /\ root(res.st.tree.left, b) # res.ret
         /\ sequence(res.st, "left", b) = sequence(St, "left", b)

\* ------------------------------------------------------------- C15
\* what operator==(a, b) is to return: equal size(), and the i-th pair of the
\* Left traversal of a has a Left key and a Right key order-equivalent, under
\* the predicates of a, to those of the i-th pair of b
lockstep_equal(st, a, b) ==
  LET sa == sequence(st, "left", a)
      sb == sequence(st, "left", b)
  IN /\ size(st, a) = size(st, b)
     /\ Len(sa) = Len(sb)
     /\ \A i \in 1..Len(sa) :
          /\ equal(st.comp[a].left, sa[i][1], sb[i][1])
          /\ equal(st.comp[a].right, sa[i][2], sb[i][2])

\* C15: a == b is true exactly when a and b have the same size() and their
\* Left traversals are pairwise order-equivalent in both keys, a != b is the
\* negation, and the comparison dereferences the end position of neither.
C15_Equality ==
  \A a \in constructed, b \in constructed :
    /\ ~operator_eq(St, a, b).past_end
    /\ operator_eq(St, a, b).ret = {lockstep_equal(St, a, b)}
    /\ operator_ne(St, a, b) = {~lockstep_equal(St, a, b)}

\* ------------------------------------------------------------- C16
\* in the memory st, bimap b is a copy of bimap other as it was in the memory
\* st0: same size(), same Left-ascending sequence of pairs, b == other, no
\* Node in common
is_copy(st0, st, b, other) ==
  /\ size(st, b) = size(st0, other)
  /\ sequence(st, "left", b) = sequence(st0, "left", other)
  /\ operator_eq(st, b, other) = [ret |-> {TRUE}, past_end |-> FALSE]
  /\ members(st.tree.left, b) \cap members(st.tree.left, other) = {}
  /\ members(st.tree.right, b) \cap members(st.tree.right, other) = {}

\* in the memory st, no insert and no erase on bimap b changes size() or a
\* pair of bimap other; u is the next address
independent(st, b, other, u) ==
  /\ \A l \in Key, r \in Key :
       LET st2 == generic_insert(st, b, u, l, r).st
       IN /\ size(st2, other) = size(st, other)
          /\ \A s \in Side : sequence(st2, s, other) = sequence(st, s, other)
  /\ \A s \in Side : \A it \in members(st.tree[s], b) :
       LET st2 == erase(st, s, b, it).st
       IN /\ size(st2, other) = size(st, other)
          /\ \A x \in Side : sequence(st2, x, other) = sequence(st, x, other)

\* C16: whatever the two predicates a bimap was constructed with, a bimap
\* copy constructed from it, and a bimap (itself constructed with any two
\* predicates) it was copy assigned to, has its size() and its Left-ascending
\* sequence of pairs and compares equal to it; the copy is made of other
\* Nodes, and an insert or erase on either leaves the other as it was.
C16_DeepCopy ==
  \A other \in constructed, b \in free :
    LET u == fresh + size(St, other)
        constructed_copy == copy_construct(St, b, other, fresh)
    IN /\ is_copy(St, constructed_copy, b, other)
       /\ independent(constructed_copy, b, other, u)
       /\ independent(constructed_copy, other, b, u)
       /\ \A compare_left \in Comp, compare_right \in Comp :
            LET assigned == copy_assign(construct(St, b, compare_left, compare_right),
                                        b, other, fresh)
            IN /\ is_copy(St, assigned, b, other)
               /\ independent(assigned, b, other, u)
               /\ independent(assigned, other, b, u)

\* ------------------------------------------------------------- C17
\* C17: after a.swap(b), a has the size(), the Nodes and the traversal
\* sequences b had and b those a had; on both sides the root of each tree has
\* the sentinel of its own bimap as parent; no Node changed its values, and
\* every position of a stored pair flips to the same position as before.
C17_ContainerSwap ==
  /\ \A a \in constructed, b \in constructed :
       LET st2 == bimap_swap(St, a, b)
       IN /\ size(st2, a) = size(St, b) /\ size(st2, b) = size(St, a)
          /\ st2.node = node
          /\ \A s \in Side :
               /\ members(st2.tree[s], a) = members(tree[s], b)
               /\ members(st2.tree[s], b) = members(tree[s], a)
               /\ \A x \in {a, b} :
                    root(st2.tree[s], x) # Null
                    => st2.tree[s][root(st2.tree[s], x)].parent = Sentinel(x)
  /\ \A a \in constructed, b \in constructed :
       LET st2 == bimap_swap(St, a, b)
       IN \A s \in Side :
            /\ sequence(st2, s, a) = sequence(St, s, b)
            /\ sequence(st2, s, b) = sequence(St, s, a)
            /\ \A n \in members(tree[s], a) \cup members(tree[s], b) :
                 /\ flip_iterator(st2.tree[s], n) = flip_iterator(tree[s], n)
                 /\ deref(st2, s, n) = deref(St, s, n)
                 /\ deref(st2, Other(s), flip_iterator(st2.tree[s], n))
                      = deref(St, Other(s), flip_iterator(tree[s], n))

\* two bimaps that hold different pairs are swapped
C17_Witness ==
  /\ constructed = Bimap
  /\ members(tree.left, 1) # {} /\ members(tree.left, 2) # {}
  /\ sequence(St, "left", 1) # sequence(St, "left", 2)
  /\ sequence(bimap_swap(St, 1, 2), "left", 1) = sequence(St, "left", 2)
  /\ bimap_swap(St, 1, 2).tree.right[root(tree.right, 2)].parent = Sentinel(1)

\* ------------------------------------------------------------- C18
\* the position in S of the smallest side-s key under the predicate of bimap
\* b, end if S is empty
least(st, s, b, S) ==
  IF S = {}
  THEN end(b)
  ELSE CHOOSE n \in S :
         \A m \in S : ~compare(st.comp[b][s], st.node[m][s], st.node[n][s])

\* C18: on either side and for every key k, find returns the position of the
\* stored key order-equivalent to k, lower_bound the position of the smallest
\* stored key not less than k, upper_bound the position of the smallest stored
\* key greater than k, and each returns end if there is no such key. The three
\* are const: they return a position and write nothing.
C18_Search ==
  \A b \in constructed, s \in Side, k \in Key :
    LET M == members(tree[s], b)
        c == comp[b][s]
    IN /\ find(St, s, b, k)
            = least(St, s, b, {n \in M : equal(c, node[n][s], k)})
       /\ bimap_lower_bound(St, s, b, k)
            = least(St, s, b, {n \in M : ~compare(c, node[n][s], k)})
       /\ bimap_upper_bound(St, s, b, k)
            = least(St, s, b, {n \in M : compare(c, k, node[n][s])})

\* two keys under the reversed predicate: lower_bound of an absent key is a
\* Node that is not the root, and upper_bound of a stored key is the Node
\* above it
C18_Witness ==
  \E b \in constructed, s \in Side, k \in Key, n \in Node :
    /\ comp[b][s] = "greater"
    /\ Cardinality(members(tree[s], b)) = 2
    /\ k \notin keys(St, s, b)
    /\ find(St, s, b, k) = end(b)
    /\ bimap_lower_bound(St, s, b, k) \in Node \ {root(tree[s], b)}
    /\ n \in members(tree[s], b)
    /\ bimap_upper_bound(St, s, b, node[n][s]) = tree[s][n].parent
    /\ tree[s][n].parent \in Node

\* ------------------------------------------------------------- C19
\* C19: erase_left(first, last) / erase_right(first, last), first the i-th
\* and last the j-th position of the side's traversal, i <= j: the call ends
\* and returns last; the Nodes at the positions i .. j - 1, and no others,
\* are out of both trees and released; size() is j - i less; the pairs that
\* stay keep their values and their order on both sides. After erasing
\* [begin, end), and after the destructor, both trees are empty.
C19_RangeErase ==
  \A b \in constructed, s \in Side :
    LET pos == positions(tree[s], b)
    IN /\ \A j \in 1..Len(pos) : \A i \in 1..j :
            LET res == erase_range(St, s, b, pos[i], pos[j])
                gone == {pos[x] : x \in i..(j - 1)}
            IN /\ res.ret = pos[j]
               /\ size(res.st, b) = size(St, b) - (j - i)
               /\ DOMAIN res.st.node = (DOMAIN node) \ gone
               /\ \A n \in DOMAIN res.st.node : res.st.node[n] = node[n]
               /\ \A x \in Side :
                    /\ members(res.st.tree[x], b) = members(tree[x], b) \ gone
                    /\ positions(res.st.tree[x], b)
                         = SelectSeq(positions(tree[x], b), LAMBDA p : p \notin gone)
       /\ LET all == erase_range(St, s, b, begin(tree[s], b), end(b)).st
          IN /\ set_empty(all.tree.left, b) /\ set_empty(all.tree.right, b)
             /\ size(all, b) = 0
       /\ LET dead == destroy(St, b)
          IN /\ members(dead.tree.left, b) = {} /\ members(dead.tree.right, b) = {}
             /\ (DOMAIN dead.node) \cap members(tree.left, b) = {}

\* a range of two of three pairs, on a side whose order is not that of the
\* other side
C19_Witness ==
  \E b \in constructed, s \in Side :
    LET pos == positions(tree[s], b)
        res == erase_range(St, s, b, pos[2], pos[4])
    IN /\ Len(pos) = 4
       /\ positions(tree[Other(s)], b) # pos
       /\ res.ret = end(b)
       /\ members(res.st.tree[Other(s)], b) = {pos[1]}
       /\ size(res.st, b) = 1

\* ------------------------------------------------------------- C20
\* the Nodes below and including p from left to right, by the child links
RECURSIVE inorder(_, _)
inorder(t, p) ==
  IF p = Null THEN <<>> ELSE inorder(t, t[p].left) \o <<p>> \o inorder(t, t[p].right)

\* every child of a Node of the tree of bimap b has that Node as parent, the
\* root has the sentinel as parent, the sentinel has no right child and no
\* parent
wellformed(t, b) ==
  /\ \A p \in members(t, b) :
       /\ t[p].left # Null => t[t[p].left].parent = p
       /\ t[p].right # Null => t[t[p].right].parent = p
  /\ root(t, b) # Null => t[root(t, b)].parent = Sentinel(b)
  /\ t[Sentinel(b)].right = Null
  /\ t[Sentinel(b)].parent = Null

\* C20: unlink() of a Node of a tree, be it a leaf, a Node with one child or
\* a Node with two children (whose successor is or is not its right child),
\* leaves the tree well-formed, its Nodes from left to right are those before
\* without the unlinked one, in the same order, operator++ walks them in that
\* order, and the three links of the unlinked Node are null.
C20_UnlinkKeepsTree ==
  \A b \in constructed, s \in Side :
    \A n \in members(tree[s], b) :
      LET t2 == unlink(tree[s], n)
      IN /\ wellformed(t2, b)
         /\ inorder(t2, root(t2, b))
              = SelectSeq(inorder(tree[s], root(tree[s], b)), LAMBDA p : p # n)
         /\ positions(t2, b) = SelectSeq(positions(tree[s], b), LAMBDA p : p # n)
         /\ t2[n] = set_base

\* a tree with a leaf, with a Node with one child, and with a Node with two
\* children whose successor is not its right child, and the unlink of the
\* last puts the successor in its place
C20_Witness ==
  \E b \in constructed, s \in Side :
    \E n \in members(tree[s], b), m \in members(tree[s], b) :
      /\ tree[s][n].left # Null /\ tree[s][n].right # Null
      /\ tree[s][tree[s][n].right].left # Null
      /\ (tree[s][m].left = Null) # (tree[s][m].right = Null)
      /\ LET v == minimum(tree[s], tree[s][n].right)
             t2 == unlink(tree[s], n)
         IN /\ v # tree[s][n].right
            /\ t2[v].left = tree[s][n].left
            /\ t2[v].right = tree[s][n].right
            /\ t2[v].parent = tree[s][n].parent

\* ------------------------------------------------------------- C21
\* the position p names once x and y have changed places
exchanged(x, y, p) == IF p = x THEN y ELSE IF p = y THEN x ELSE p

\* C21: x.swap(y), x and y two Nodes of one tree: y is where x was and x is
\* where y was. The slot that pointed to x points to y and the slot that
\* pointed to y points to x, each of the two has the parent, the left and the
\* right child the other had (the other itself where that was the one), every
\* child has its new host as parent, and nothing else changed.
C21_NodeSwap ==
  \A b \in constructed, s \in Side :
    \A x \in members(tree[s], b), y \in members(tree[s], b) :
      x # y =>
        LET t == tree[s]
            t2 == swap(t, x, y)
        IN \A p \in Ptr :
             t2[exchanged(x, y, p)] =
               [left |-> exchanged(x, y, t[p].left),
                right |-> exchanged(x, y, t[p].right),
                parent |-> exchanged(x, y, t[p].parent)]

\* ------------------------------------------------------------- C22
\* the Nodes linked into the side-s trees of the bimaps that are alive
linked(s) == UNION {members(tree[s], b) : b \in constructed}

\* the addresses operator new returned and delete took back
released == (1..allocs) \ DOMAIN node

\* C22: between operations no delete has hit an address without a Node; the
\* Nodes allocated and not released are the Nodes in the Left trees, and the
\* Nodes in the Right trees, of the bimaps that are alive; no Node is in the
\* trees of two bimaps; no link of any set_base points to a released Node,
\* and a released Node had its own links nulled.
C22_RecordLifecycle ==
  /\ ~double_free
  /\ DOMAIN node \subseteq 1..allocs
  /\ \A s \in Side :
       /\ DOMAIN node = linked(s)
       /\ \A a \in constructed, b \in constructed :
            a # b => members(tree[s], a) \cap members(tree[s], b) = {}
       /\ \A p \in Ptr :
            /\ {tree[s][p].left, tree[s][p].right, tree[s][p].parent} \cap released = {}
            /\ p \in released => tree[s][p] = set_base

\* the first bimap was moved from and destroyed: the second is alive alone and
\* holds the first Node; the second Node was released
C22_Witness ==
  /\ constructed = {2}
  /\ members(tree.left, 2) = {1}
  /\ allocs = 2
  /\ released = {2}

====
